---- MODULE Spec2Model ----
(***************************************************************************)
(* NFTStrategy.authenticate of passport-nft, as a state machine.           *)
(*                                                                         *)
(* The repository carries two copies of the strategy: lib/strategy.js and  *)
(* a second copy (unnamed/part_002) that adds a static fallback challenge,  *)
(* an inner try/catch in the challenge callback and Number() conversions    *)
(* of the ledger results.  The variable strategy.file selects the copy.     *)
(*                                                                         *)
(* One attempt = one call of authenticate(req).  Each action is one         *)
(* handler of the chain: the synchronous body of authenticate, the          *)
(* challenge callback, the then-callback of each balanceOf(...).call(),     *)
(* the then-callback of Promise.all, the then/catch callbacks of            *)
(* checkNftBalance() and a later call of done().  RepeatSpec adds a second  *)
(* call of authenticate on the same instance, given the responses of the   *)
(* first one.                                                              *)
(***************************************************************************)
EXTENDS Integers, Sequences, FiniteSets, TLC

\* ---------------------------------------------------------------- bounds
MaxTokenIds == 2     \* longest configured tokenIds list
MaxBalance  == 2     \* largest balance one ledger query returns
MaxSharedIds == 1    \* longest tokenIds list when two attempts are in flight

\* ------------------------------------------------------ JavaScript values
\* A balance as web3 hands it over: a JS number, or a decimal string.
JsNum(n) == [t |-> "number", n |-> n, s |-> <<>>]
JsStr(d) == [t |-> "string", n |-> 0, s |-> d]

RECURSIVE Digits(_)
\* String(n) for a non-negative integer, as a sequence of decimal digits
Digits(n) == IF n < 10 THEN <<n>> ELSE Append(Digits(n \div 10), n % 10)

RECURSIVE ParseDigits(_)
\* the integer a sequence of decimal digits denotes ("" -> 0)
ParseDigits(d) ==
    IF d = <<>> THEN 0
    ELSE 10 * ParseDigits(SubSeq(d, 1, Len(d) - 1)) + d[Len(d)]

\* Number(x)
Number(x) == IF x.t = "number" THEN x.n ELSE ParseDigits(x.s)

\* x + y : arithmetic on two numbers, string concatenation otherwise
JsToString(x) == IF x.t = "number" THEN Digits(x.n) ELSE x.s
JsPlus(x, y) ==
    IF x.t = "number" /\ y.t = "number" THEN JsNum(x.n + y.n)
    ELSE JsStr(JsToString(x) \o JsToString(y))

\* x === 0
StrictEqZero(x) == x.t = "number" /\ x.n = 0

\* ------------------------------------------------------ strings, addresses
Undefined == [t |-> "undefined", s |-> <<>>]
Str(s)    == [t |-> "string", s |-> s]

LowerOf == [c \in {"A", "a", "b", "C", "d", "E", "f"} |->
              CASE c = "A" -> "a" [] c = "C" -> "c" [] c = "E" -> "e"
                [] OTHER -> c]
\* String.prototype.toLowerCase
ToLowerCase(s) == [i \in 1..Len(s) |-> LowerOf[s[i]]]

Holder   == <<"A", "b">>      \* checksummed address of the key that signs
Stranger == <<"C", "d">>      \* another key
Garbage  == <<"E", "f">>      \* what recovery gives for a different message

Key        == <<"k">>         \* this._key
Nonce      == <<"n">>         \* the challenge the source keeps for an address
StaticText == <<"s">>         \* the built-in default of this._challenge
GivenText  == <<"g">>         \* options.challenge, when it is given

\* the template literal `${_instance.key}${res}`
Message(res) == Key \o res

NoSignature == [t |-> "undefined", signer |-> <<>>, msg |-> <<>>]
Malformed   == [t |-> "malformed", signer |-> <<>>, msg |-> <<>>]
Signed(a, m) == [t |-> "signature", signer |-> a, msg |-> m]

\* web3.eth.accounts.recover(message, signature): throws on a missing or
\* malformed signature, gives the signer for the signed message and an
\* unrelated address for any other message.
Recover(message, sig) ==
    IF sig.t # "signature" THEN [threw |-> TRUE, address |-> <<>>]
    ELSE IF sig.msg = message THEN [threw |-> FALSE, address |-> sig.signer]
    ELSE [threw |-> FALSE, address |-> Garbage]

\* ------------------------------------------------------------ constructor
Files == {"lib/strategy.js", "part_002"}

TokenIdLists == {[i \in 1..n |-> i] : n \in 0..MaxTokenIds}

\* The options object handed to the constructor.
\*   getChallenge: "absent", or the kind of function supplied:
\*     "async"        returns a Promise of the challenge
\*     "syncReturn"   returns the challenge string as its return value
\*     "syncCallback" node-style, calls its second argument with (err, res)
\*   challenge: "absent" or "given" (a string, GivenText)
\*   tokenStandard: 0 when absent
\*   customTokenABI: "absent", "object" (truthy, not an Array) or "array"
OptionsSet ==
    [getChallenge      : {"absent", "async", "syncReturn", "syncCallback"},
     challenge         : {"absent", "given"},
     tokenStandard     : {0, 20, 721, 1155},
     nftAddress        : {"absent", "malformed", "valid"},
     tokenIds          : [given : BOOLEAN, ids : TokenIdLists],
     passReqToCallback : {"absent", "false", "true"},
     autoGrantUser     : {"absent", "true"},
     customTokenABI    : {"absent", "object", "array"}]

\* the web3 argument: absent, without .eth, without a current provider, or
\* ready; the verify argument: left out, null, or a function
Web3Args   == {"absent", "noEth", "noProvider", "ready"}
VerifyArgs == {"omitted", "null", "function"}

\* the default value of the parameter  verify = function() {}
VerifyParameter(verify) == IF verify = "omitted" THEN "noop" ELSE verify

\* options.x || dflt for a boolean-valued option
OrDefault(opt, dflt) == IF opt = "true" THEN TRUE ELSE dflt

\* options.getChallenge() instanceof Promise
ReturnsPromise(kind) == kind = "async"

\* the checks of the constructor, in the order of the code: TRUE when one
\* of them throws its TypeError
ConstructorThrows(file, options, web3, verify) ==
    \/ web3 # "ready"
    \/ VerifyParameter(verify) = "null"
    \/ file = "lib/strategy.js" /\ options.getChallenge = "absent"
    \/ options.tokenStandard \notin {721, 1155}
    \/ options.nftAddress # "valid"
    \/ options.tokenStandard = 1155 /\ ~options.tokenIds.given
    \/ options.customTokenABI = "object"

\* new NFTStrategy(options, web3, verify): the fields of the instance, and
\* threw = TRUE when the constructor raises a TypeError.
NFTStrategy(file, options, web3, verify) ==
    LET noGetChallenge == options.getChallenge = "absent"
    IN [file               |-> file,
        threw              |-> ConstructorThrows(file, options, web3, verify),
        _challenge         |-> IF options.challenge = "given" THEN GivenText
                               ELSE StaticText,
        _getChallenge      |-> IF noGetChallenge THEN "fallback"
                               ELSE options.getChallenge,
        _asyncGetChallenge |-> IF noGetChallenge THEN TRUE
                               ELSE ReturnsPromise(options.getChallenge),
        _tokenStandard     |-> options.tokenStandard,
        _tokenIds          |-> IF options.tokenStandard = 1155
                               THEN options.tokenIds.ids ELSE <<>>,
        _passReqToCallback |-> OrDefault(options.passReqToCallback, TRUE),
        _autoGrantUser     |-> OrDefault(options.autoGrantUser, FALSE),
        _customTokenABI    |-> IF options.customTokenABI = "array"
                               THEN "array" ELSE "null",
        _verify            |-> VerifyParameter(verify)]

\* ------------------------------------------------------------------ state
VARIABLES
    args,          \* the arguments the constructor was called with
    firstRun,      \* what an earlier attempt on this instance was given and
                   \* what it signalled (ran = FALSE: there was none)
    other,         \* a second attempt in flight on the instance: its request
                   \* and the state of its callback chain, while the handlers
                   \* of the attempt in the variables below run (pc "idle":
                   \* there is none)
    turn,          \* 1 or 2: which of the two attempts the variables below
                   \* hold
    strategy,      \* the constructed instance (read-only after Init)
    req,           \* the request: headers and the user property
    pc,            \* where the attempt's callback chain stands
    challengeCalls,\* arguments of every call of this._getChallenge
    source,        \* what the challenge source did in this attempt
    resolved,      \* the challenge string the callback verified against
    web3Returns,   \* "number" or "string": how this web3 hands balances over
    queries,       \* balanceOf(...).call() promises, one per position
    issued,        \* log of the balance queries sent to the ledger
    balance,       \* the promise checkNftBalance() returns
    verifyCalls,   \* arguments of every call of this._verify
    verifyHow,     \* what the verify callback did when it was invoked
    doneCalls,     \* arguments of every call of done()
    doneOwed,      \* calls of done() the verify callback still has to make
    signals,       \* success / fail / error calls, in order
    escaped        \* exceptions and rejections nothing handled

vars == <<args, other, turn, firstRun, strategy, req, pc, challengeCalls, source,
         resolved, web3Returns, queries,
          issued, balance, verifyCalls, verifyHow, doneCalls, doneOwed,
          signals, escaped>>

\* -------------------------------------------------------------- the inputs
ClaimedAddresses ==
    {Undefined, Str(<<>>), Str(Holder), Str(ToLowerCase(Holder)), Str(Stranger)}

Signatures ==
    {NoSignature, Malformed,
     Signed(Holder, Message(Nonce)), Signed(Holder, Message(StaticText)),
     Signed(Holder, Message(GivenText)),
     Signed(Stranger, Message(Nonce))}

\* what a supplied getChallenge hands to its callback: (err) or (null, res)
ChallengeOutcomes ==
    {[err |-> TRUE, res |-> Undefined]} \cup
    {[err |-> FALSE, res |-> r] : r \in {Undefined, Str(<<>>), Str(Nonce)}}

\* async () => `${this._challenge}` of the second copy
FallbackOutcome == [err |-> FALSE, res |-> Str(strategy._challenge)]

\* the arguments the verify callback gives done(err, user, info)
DoneArgs == [err : {"null", "error"}, user : {"null", "user"},
             info : {"info"}]

DefaultDone == [err |-> "null", user |-> "user", info |-> "info"]

\* what the verify callback does when invoked
VerifyBehaviours ==
    {"done", "doneLater", "throw", "doneThenThrow", "doneTwice", "never"}

\* what the challenge source did: nothing yet, threw, returned a string
\* without calling back, or called the callback with (err, res)
NoSource == [did |-> "nothing", err |-> FALSE, res |-> Undefined]
Threw    == [did |-> "threw", err |-> FALSE, res |-> Undefined]
Returned(res)    == [did |-> "returned", err |-> FALSE, res |-> res]
CalledBack(out)  == [did |-> "calledBack", err |-> out.err, res |-> out.res]

NoUser == [set |-> FALSE, address |-> Undefined, nftBalance |-> JsNum(0)]

NoQuery == [state |-> "pending", value |-> JsNum(0)]
NoBalancePromise == [state |-> "none", value |-> JsNum(0)]

\* The calls of the constructor that are explored: every combination of the
\* options the attempt reads (getChallenge, tokenStandard 721/1155, tokenIds,
\* autoGrantUser), with at most one of the other arguments away from its
\* usual value.
Unusual(o, w, v) ==
    {k \in {"web3", "verify", "tokenStandard", "nftAddress", "customTokenABI",
            "challenge", "passReqToCallback"} :
        \/ k = "web3" /\ w # "ready"
        \/ k = "verify" /\ v # "function"
        \/ k = "tokenStandard" /\ o.tokenStandard \notin {721, 1155}
        \/ k = "nftAddress" /\ o.nftAddress # "valid"
        \/ k = "customTokenABI" /\ o.customTokenABI # "absent"
        \/ k = "challenge" /\ o.challenge # "absent"
        \/ k = "passReqToCallback" /\ o.passReqToCallback # "absent"}

ConstructorCalls ==
    {c \in [options : OptionsSet, web3 : Web3Args, verify : VerifyArgs] :
        /\ c.options.tokenIds.given => c.options.tokenStandard = 1155
        /\ ~c.options.tokenIds.given => c.options.tokenIds.ids = <<>>
        /\ Cardinality(Unusual(c.options, c.web3, c.verify)) <= 1}

\* the request of an attempt; no attempt is made on an instance that was
\* never constructed
Requests ==
    {[headers |-> [address |-> a, signature |-> s], user |-> NoUser] :
        a \in ClaimedAddresses, s \in Signatures}

NoRequest ==
    [headers |-> [address |-> Undefined, signature |-> NoSignature],
     user |-> NoUser]

\* no attempt was made on the instance before this one
NoFirstRun ==
    [ran |-> FALSE, source |-> NoSource, queries |-> <<>>,
     verifyHow |-> "notCalled", doneCalls |-> <<>>, signals |-> <<>>,
     verifyCalls |-> <<>>, escaped |-> <<>>, user |-> NoUser]

\* the request and the closures of a call of authenticate that has not run
\* any of its code yet
NewAttempt(r, at) ==
    [req |-> r, pc |-> at, challengeCalls |-> <<>>, source |-> NoSource,
     resolved |-> Undefined, queries |-> <<>>, issued |-> <<>>,
     balance |-> NoBalancePromise, verifyCalls |-> <<>>,
     verifyHow |-> "notCalled", doneCalls |-> <<>>, doneOwed |-> 0,
     signals |-> <<>>, escaped |-> <<>>]

\* no second attempt
Idle == NewAttempt(NoRequest, "idle")

Init ==
    /\ \E f \in Files, c \in ConstructorCalls :
          /\ args = c
          /\ strategy = NFTStrategy(f, c.options, c.web3, c.verify)
    /\ IF strategy.threw
       THEN req = NoRequest /\ web3Returns = "number"
       ELSE req \in Requests /\ web3Returns \in {"number", "string"}
    /\ pc = IF strategy.threw THEN "unconstructed" ELSE "start"
    /\ challengeCalls = <<>>
    /\ source = NoSource
    /\ resolved = Undefined
    /\ firstRun = NoFirstRun
    /\ other = Idle
    /\ turn = 1
    /\ queries = <<>>
    /\ issued = <<>>
    /\ balance = NoBalancePromise
    /\ verifyCalls = <<>>
    /\ verifyHow = "notCalled"
    /\ doneCalls = <<>>
    /\ doneOwed = 0
    /\ signals = <<>>
    /\ escaped = <<>>

\* ------------------------------------------------------------- the signals
Arg(t, m) == [t |-> t, m |-> m]
NoArg == Arg("none", "")
\* this.success(user, info), this.fail(info), this.error(err)
Success(user, info) == [kind |-> "success", a |-> user, b |-> info]
Fail(info)          == [kind |-> "fail", a |-> info, b |-> NoArg]
Error(err)          == [kind |-> "error", a |-> err, b |-> NoArg]

\* ---------------------------------------------------- the challenge callback
\* The callback with the two addresses compared as they are written.
ChallengeCheckExact(out, headers) ==
    LET res == IF out.res.t = "undefined" THEN <<>> ELSE out.res.s
        rec == Recover(Message(res), headers.signature)
    IN  IF out.err THEN "ChallengeError"
        ELSE IF res = <<>> THEN "Challenge string invalid"
        ELSE IF rec.threw THEN "RecoverFailed"
        ELSE IF headers.address.t = "undefined" THEN "TypeError: toLowerCase"
        ELSE IF rec.address # headers.address.s THEN "Address mismatch"
        ELSE ""

\* Lines 123-126 of the callback (err, res = '') => {...}: the exception it
\* throws, or "" when the address matched and the balance check starts.
ChallengeCheck(out, headers) ==
    LET res == IF out.res.t = "undefined" THEN <<>> ELSE out.res.s
        rec == Recover(Message(res), headers.signature)
    IN  IF out.err THEN "ChallengeError"
        ELSE IF res = <<>> THEN "Challenge string invalid"
        ELSE IF rec.threw THEN "RecoverFailed"
        ELSE IF headers.address.t = "undefined" THEN "TypeError: toLowerCase"
        ELSE IF ToLowerCase(rec.address) # ToLowerCase(headers.address.s)
             THEN "Address mismatch"
        ELSE ""

\* the token ids checkNftBalance() asks the ledger about, in order
\* (0 stands for the one-argument balanceOf(address) of ERC-721)
QueryIds(st) ==
    IF st._tokenStandard = 721 THEN <<0>> ELSE st._tokenIds

\* checkNftBalance() taking the ids off this._tokenIds as it sends the
\* queries: the list of the instance is empty afterwards
StartBalanceCheckDraining ==
    /\ queries' = [i \in 1..Len(QueryIds(strategy)) |-> NoQuery]
    /\ issued' = issued \o QueryIds(strategy)
    /\ balance' = [state |-> "pending", value |-> JsNum(0)]
    /\ pc' = "balance_pending"
    /\ strategy' = [strategy EXCEPT !._tokenIds = <<>>]

\* checkNftBalance(): the promise is created and the queries are sent; the
\* loop over this._tokenIds reads the list by index and leaves it as it is
StartBalanceCheck ==
    /\ queries' = [i \in 1..Len(QueryIds(strategy)) |-> NoQuery]
    /\ issued' = issued \o QueryIds(strategy)
    /\ balance' = [state |-> "pending", value |-> JsNum(0)]
    /\ pc' = "balance_pending"
    /\ UNCHANGED strategy

\* The exception of the challenge callback handled by turning autoGrantUser
\* off on the instance.
CallbackThrowsResetting(msg, inTry) ==
    /\ IF strategy.file = "part_002"
       THEN /\ signals' = Append(signals, Fail(Arg("message", msg)))
            /\ escaped' = escaped
       ELSE IF inTry
       THEN /\ signals' = Append(signals, Fail(Arg("error", msg)))
            /\ escaped' = escaped
       ELSE /\ signals' = signals
            /\ escaped' = Append(escaped, Arg("uncaughtException", msg))
    /\ pc' = "ended"
    /\ strategy' = [strategy EXCEPT !._autoGrantUser = FALSE]
    /\ UNCHANGED <<queries, issued, balance>>

\* An exception leaves the challenge callback.  inTry: the callback runs
\* inside authenticate's try block (a synchronous source called it); otherwise
\* util.callbackify called it from process.nextTick.
CallbackThrows(msg, inTry) ==
    /\ IF strategy.file = "part_002"
       THEN /\ signals' = Append(signals, Fail(Arg("message", msg)))
            /\ escaped' = escaped
       ELSE IF inTry
       THEN /\ signals' = Append(signals, Fail(Arg("error", msg)))
            /\ escaped' = escaped
       ELSE /\ signals' = signals
            /\ escaped' = Append(escaped, Arg("uncaughtException", msg))
    /\ pc' = "ended"
    /\ UNCHANGED <<strategy, queries, issued, balance>>

\* An attempt that follows another one on the same instance is given the
\* responses the first one was given: the same outcome of the challenge
\* source, the same answer of the ledger to each query, the same behaviour
\* of the verify callback.
\* (Of two attempts in flight it is the first that repeats the earlier
\* one; the second is given whatever its collaborators answer.)
Replaying          == firstRun.ran /\ turn = 1
SameSource(src)    == Replaying => src = firstRun.source
SameAnswer(i, q)   == Replaying => q = firstRun.queries[i]
SameVerify(how)    == Replaying => how = firstRun.verifyHow
SameDone(k, d)     == Replaying => d = firstRun.doneCalls[k]

ChallengeCallbackBody(out, inTry) ==
    LET msg == ChallengeCheck(out, req.headers)
    IN  /\ SameSource(CalledBack(out))
        /\ source' = CalledBack(out)
        /\ resolved' = IF out.res.t = "undefined" THEN Str(<<>>) ELSE out.res
        /\ IF msg # ""
           THEN CallbackThrows(msg, inTry)
           ELSE StartBalanceCheck /\ UNCHANGED <<signals, escaped>>

\* The source called once more, without arguments, to see whether it
\* returns a Promise, before it is called with the address.
SourceCallsDetecting(address) == <<Undefined, address>>

\* challengeFunction(address, callback): the calls of the challenge source
\* one attempt makes, each with its first argument
SourceCalls(address) == <<address>>

\* authenticate(req), up to its return
Authenticate ==
    /\ pc = "start"
    /\ challengeCalls' = challengeCalls \o SourceCalls(req.headers.address)
    /\ UNCHANGED <<args, other, turn, firstRun, req, web3Returns, verifyCalls, verifyHow,
                   doneCalls, doneOwed>>
    /\ IF strategy._asyncGetChallenge
       THEN \* util.callbackify(getChallenge)(address, cb): cb runs later
            /\ pc' = "challenge_pending"
            /\ UNCHANGED <<strategy, source, resolved, queries, issued, balance,
                           signals, escaped>>
       ELSE IF strategy._getChallenge = "syncReturn"
       THEN \* getChallenge(address, cb) returns the string or throws;
            \* it never calls cb
            \E throws \in BOOLEAN :
              /\ SameSource(IF throws THEN Threw ELSE Returned(Str(Nonce)))
              /\ source' = IF throws THEN Threw ELSE Returned(Str(Nonce))
              /\ IF throws
                 THEN /\ signals' = Append(signals,
                                           Fail(Arg("error", "ChallengeError")))
                      /\ pc' = "ended"
                 ELSE /\ signals' = signals
                      /\ pc' = "no_callback"
              /\ UNCHANGED <<strategy, resolved, queries, issued, balance,
                             escaped>>
       ELSE \* node-style source: cb runs before getChallenge returns
            \E out \in ChallengeOutcomes : ChallengeCallbackBody(out, TRUE)

\* the callback handed to the callbackified getChallenge
ChallengeCallback ==
    /\ pc = "challenge_pending"
    /\ \E out \in IF strategy._getChallenge = "fallback"
                  THEN {FallbackOutcome} ELSE ChallengeOutcomes :
          ChallengeCallbackBody(out, FALSE)
    /\ UNCHANGED <<args, other, turn, firstRun, req, web3Returns, challengeCalls,
                   verifyCalls, verifyHow, doneCalls, doneOwed>>

\* ------------------------------------------------------- the balance check
\* a balance as this web3 returns it from call()
LedgerValue(n) ==
    IF web3Returns = "number" THEN JsNum(n) ELSE JsStr(Digits(n))

\* the test before rej(...): lib compares the raw value, the second copy
\* converts it first
IsZeroBalance(file, b) ==
    IF file = "part_002" THEN Number(b) = 0 ELSE StrictEqZero(b)

\* the value handed to resolve(...)
ResolvedBalance(file, b) ==
    IF file = "part_002" THEN JsNum(Number(b)) ELSE b

RECURSIVE TotalBalance(_, _, _)
\* the loop  totalBalance += results[i]  /  += Number(results[i])
TotalBalance(file, results, total) ==
    IF results = <<>> THEN total
    ELSE TotalBalance(file, Tail(results),
                      IF file = "part_002"
                      THEN JsNum(total.n + Number(Head(results)))
                      ELSE JsPlus(total, Head(results)))

\* resolve(value) called before the test for zero: the promise is resolved
\* whatever the value.
SettleBalanceResolving(zero, value) ==
    /\ balance' = [state |-> "resolved", value |-> value]
    /\ pc' = "balance_settled"

\* if (zero) rej(new Error(...)); resolve(value): the first call settles
SettleBalance(zero, value) ==
    /\ balance' = IF zero THEN [state |-> "rejected", value |-> value]
                          ELSE [state |-> "resolved", value |-> value]
    /\ pc' = "balance_settled"

\* ERC-721: balanceOf(address).call().then(balance => {...})
BalanceOf721Then ==
    /\ pc = "balance_pending"
    /\ strategy._tokenStandard = 721
    /\ queries[1].state = "pending"
    /\ \E n \in 0..MaxBalance :
          LET b == LedgerValue(n)
          IN  /\ SameAnswer(1, [state |-> "fulfilled", value |-> b])
              /\ queries' = [queries EXCEPT ![1] =
                                [state |-> "fulfilled", value |-> b]]
              /\ SettleBalance(IsZeroBalance(strategy.file, b),
                               ResolvedBalance(strategy.file, b))
    /\ UNCHANGED <<args, other, turn, firstRun, strategy, req, challengeCalls, source, resolved, web3Returns, issued,
                   verifyCalls, verifyHow, doneCalls, doneOwed, signals,
                   escaped>>

\* ERC-1155: balanceOf(address, id).call().then(balance => { _res(balance) })
BalanceOf1155Then(i) ==
    /\ pc = "balance_pending"
    /\ strategy._tokenStandard = 1155
    /\ queries[i].state = "pending"
    /\ \E n \in 0..MaxBalance :
          /\ SameAnswer(i, [state |-> "fulfilled", value |-> LedgerValue(n)])
          /\ queries' = [queries EXCEPT ![i] =
                            [state |-> "fulfilled", value |-> LedgerValue(n)]]
    /\ UNCHANGED <<args, other, turn, firstRun, strategy, req, pc, challengeCalls, source, resolved, web3Returns,
                   issued, balance, verifyCalls, verifyHow, doneCalls, doneOwed,
                   signals, escaped>>

\* call() rejects and the query is sent again, up to as many times as
\* there are queries.
BalanceOfRetries(i) ==
    /\ pc = "balance_pending"
    /\ queries[i].state = "pending"
    /\ Len(issued) < 2 * Len(QueryIds(strategy))
    /\ issued' = Append(issued, QueryIds(strategy)[i])
    /\ UNCHANGED <<args, other, turn, firstRun, strategy, req, pc, challengeCalls, source,
                   resolved, web3Returns, queries, balance, verifyCalls,
                   verifyHow, doneCalls, doneOwed, signals, escaped>>

\* call() rejects: the promise .then(...) returns rejects with no handler,
\* and neither rej nor _res is ever called for this query
BalanceOfRejects(i) ==
    /\ pc = "balance_pending"
    /\ queries[i].state = "pending"
    /\ SameAnswer(i, [queries[i] EXCEPT !.state = "rejected"])
    /\ queries' = [queries EXCEPT ![i].state = "rejected"]
    /\ escaped' = Append(escaped, Arg("unhandledRejection", "LedgerError"))
    /\ UNCHANGED <<args, other, turn, firstRun, strategy, req, pc, challengeCalls, source, resolved, web3Returns,
                   issued, balance, verifyCalls, verifyHow, doneCalls, doneOwed,
                   signals>>

\* The then-callback run as soon as some of the queries have returned, on
\* the results that are there.
PromiseSomeThen ==
    /\ pc = "balance_pending"
    /\ strategy._tokenStandard = 1155
    /\ \E i \in 1..Len(queries) : queries[i].state = "fulfilled"
    /\ LET done    == SelectSeq(queries, LAMBDA q : q.state = "fulfilled")
           results == [i \in 1..Len(done) |-> done[i].value]
           total   == TotalBalance(strategy.file, results, JsNum(0))
       IN  SettleBalance(StrictEqZero(total), total)
    /\ UNCHANGED <<args, other, turn, firstRun, strategy, req, challengeCalls, source,
                   resolved, web3Returns, queries, issued, verifyCalls,
                   verifyHow, doneCalls, doneOwed, signals, escaped>>

\* Promise.all(promises).then(results => {...})
PromiseAllThen ==
    /\ pc = "balance_pending"
    /\ strategy._tokenStandard = 1155
    /\ \A i \in 1..Len(queries) : queries[i].state = "fulfilled"
    /\ LET results == [i \in 1..Len(queries) |-> queries[i].value]
           total   == TotalBalance(strategy.file, results, JsNum(0))
       IN  SettleBalance(StrictEqZero(total), total)
    /\ UNCHANGED <<args, other, turn, firstRun, strategy, req, challengeCalls, source, resolved, web3Returns, queries,
                   issued, verifyCalls, verifyHow, doneCalls, doneOwed, signals,
                   escaped>>

\* ------------------------------------------------------- the verify callback
\* function verified(__err, user, info)
Verified(file, d) ==
    IF d.err # "null"
    THEN IF file = "part_002" THEN Fail(Arg(d.err, ""))
         ELSE Error(Arg(d.err, ""))
    ELSE IF d.user = "null" THEN Fail(Arg(d.info, ""))
    ELSE Success(Arg(d.user, ""), Arg(d.info, ""))

\* catch (err) around the call of this._verify
VerifyThrew(file) ==
    IF file = "part_002" THEN Fail(Arg("error", "VerifyThrew"))
    ELSE Error(Arg("error", "VerifyThrew"))

\* The object with the address taken from the signature in place of the
\* one of the request.
UserInfoRecovered(headers, b) ==
    [set |-> TRUE, address |-> Str(headers.signature.signer), nftBalance |-> b]

\* { address, nftBalance: balance }, address being the request header
UserInfo(headers, b) ==
    [set |-> TRUE, address |-> headers.address, nftBalance |-> b]

\* checkNftBalance().then(balance => {...}); a call of the verify callback
\* is recorded with the req.user it can see when it is called
CheckNftBalanceThen ==
    /\ pc = "balance_settled"
    /\ balance.state = "resolved"
    /\ LET userInfo == UserInfo(req.headers, balance.value)
       IN  /\ req' = IF strategy._autoGrantUser
                     THEN [req EXCEPT !.user = userInfo] ELSE req
           /\ verifyCalls' = Append(verifyCalls,
                  [withReq |-> strategy._passReqToCallback,
                   userInfo |-> userInfo,
                   reqUser |-> req'.user])
    /\ \E how \in VerifyBehaviours, d \in DoneArgs :
          LET callsDone == how \in {"done", "doneThenThrow", "doneTwice"}
              throws    == how \in {"throw", "doneThenThrow"}
              later     == how \in {"doneLater", "doneTwice"}
          IN  /\ strategy._verify = "noop" => how = "never"
              /\ SameVerify(how)
              /\ callsDone => SameDone(1, d)
              /\ ~callsDone => d = DefaultDone
              /\ verifyHow' = how
              /\ doneCalls' = IF callsDone THEN Append(doneCalls, d)
                              ELSE doneCalls
              \* verified(...) called before the callback returns, then
              \* the catch clause if the callback throws
              /\ signals' = signals
                     \o (IF callsDone THEN <<Verified(strategy.file, d)>>
                         ELSE <<>>)
                     \o (IF throws THEN <<VerifyThrew(strategy.file)>>
                         ELSE <<>>)
              /\ doneOwed' = IF later THEN 1 ELSE 0
              /\ pc' = IF later THEN "verify_pending"
                       ELSE IF how = "never" THEN "abandoned" ELSE "ended"
    /\ UNCHANGED <<args, other, turn, firstRun, strategy, challengeCalls, source, resolved, web3Returns, queries,
                   issued, balance, escaped>>

\* .catch(__err => { _instance.fail({ message: __err.message }) })
CheckNftBalanceCatch ==
    /\ pc = "balance_settled"
    /\ balance.state = "rejected"
    /\ signals' = Append(signals, Fail(Arg("message", "has no balance")))
    /\ pc' = "ended"
    /\ UNCHANGED <<args, other, turn, firstRun, strategy, req, challengeCalls, source, resolved, web3Returns, queries,
                   issued, balance, verifyCalls, verifyHow, doneCalls, doneOwed,
                   escaped>>

\* the verify callback calls done(err, user, info) after it returned
VerifiedLater ==
    /\ pc = "verify_pending"
    /\ doneOwed > 0
    /\ \E d \in DoneArgs :
          /\ SameDone(Len(doneCalls) + 1, d)
          /\ signals' = Append(signals, Verified(strategy.file, d))
          /\ doneCalls' = Append(doneCalls, d)
    /\ doneOwed' = doneOwed - 1
    /\ pc' = IF doneOwed = 1 THEN "ended" ELSE pc
    /\ UNCHANGED <<args, other, turn, firstRun, strategy, req, challengeCalls, source, resolved, web3Returns, queries,
                   issued, balance, verifyCalls, verifyHow, escaped>>

Next ==
    \/ Authenticate
    \/ ChallengeCallback
    \/ BalanceOf721Then
    \/ \E i \in 1..Len(queries) : BalanceOf1155Then(i)
    \/ \E i \in 1..Len(queries) : BalanceOfRejects(i)
    \/ PromiseAllThen
    \/ CheckNftBalanceThen
    \/ CheckNftBalanceCatch
    \/ VerifiedLater

Spec == Init /\ [][Next]_vars

\* A second call of authenticate on the same instance, once the first
\* attempt has nothing left to run: a new request with the same headers, and
\* the closures of authenticate (the promises, the counters) created anew.
\* The instance is whatever the first call left.
Restart ==
    /\ ~firstRun.ran
    /\ pc # "unconstructed"
    /\ ~ENABLED Next
    /\ firstRun' = [ran |-> TRUE, source |-> source, queries |-> queries,
                    verifyHow |-> verifyHow, doneCalls |-> doneCalls,
                    signals |-> signals, verifyCalls |-> verifyCalls,
                    escaped |-> escaped, user |-> req.user]
    /\ req' = [req EXCEPT !.user = NoUser]
    /\ pc' = "start"
    /\ challengeCalls' = <<>>
    /\ source' = NoSource
    /\ resolved' = Undefined
    /\ queries' = <<>>
    /\ issued' = <<>>
    /\ balance' = NoBalancePromise
    /\ verifyCalls' = <<>>
    /\ verifyHow' = "notCalled"
    /\ doneCalls' = <<>>
    /\ doneOwed' = 0
    /\ signals' = <<>>
    /\ escaped' = <<>>
    /\ UNCHANGED <<args, strategy, web3Returns>>

\* two attempts one after the other, on an instance constructed with the
\* usual arguments
RepeatInit ==
    /\ Init
    /\ Unusual(args.options, args.web3, args.verify) = {}

\* the second call is the only one in flight
Repeat == Restart /\ UNCHANGED <<other, turn>>

RepeatNext == Next \/ Repeat

RepeatSpec == RepeatInit /\ [][RepeatNext]_vars

\* ------------------------------------------------ two attempts in flight
\* the attempt the variables hold
ThisAttempt ==
    [req |-> req, pc |-> pc, challengeCalls |-> challengeCalls,
     source |-> source, resolved |-> resolved, queries |-> queries,
     issued |-> issued, balance |-> balance, verifyCalls |-> verifyCalls,
     verifyHow |-> verifyHow, doneCalls |-> doneCalls, doneOwed |-> doneOwed,
     signals |-> signals, escaped |-> escaped]

\* The event loop runs a handler of the other attempt next, if that one
\* has not ended: each attempt has its own request and its own closures of
\* authenticate, and the two have the instance and the web3 object in
\* common.
Switch ==
    /\ other.pc \notin {"idle", "ended", "abandoned", "no_callback"}
    /\ other' = ThisAttempt
    /\ turn' = 3 - turn
    /\ req' = other.req
    /\ pc' = other.pc
    /\ challengeCalls' = other.challengeCalls
    /\ source' = other.source
    /\ resolved' = other.resolved
    /\ queries' = other.queries
    /\ issued' = other.issued
    /\ balance' = other.balance
    /\ verifyCalls' = other.verifyCalls
    /\ verifyHow' = other.verifyHow
    /\ doneCalls' = other.doneCalls
    /\ doneOwed' = other.doneOwed
    /\ signals' = other.signals
    /\ escaped' = other.escaped
    /\ UNCHANGED <<args, firstRun, strategy, web3Returns>>

\* the request of the second attempt: another address, with its signature
OtherRequests ==
    {[headers |-> [address |-> Str(Stranger),
                   signature |-> Signed(Stranger, Message(Nonce))],
      user |-> NoUser]}

\* The attempt that ran alone is made again, and this time a request of
\* someone else arrives on the instance while it is in flight.
Arrive ==
    /\ Restart
    /\ other' \in {NewAttempt(r, "start") : r \in OtherRequests}
    /\ turn' = 1

\* The instances two attempts are made on at the same time: constructed
\* with the usual arguments and autoGrantUser, on a web3 that returns
\* numbers; the first attempt is the holder's, with a signature over the
\* challenge of a supplied getChallenge.
ConcurrentInit ==
    /\ RepeatInit
    /\ args.options.autoGrantUser = "true"
    /\ Len(args.options.tokenIds.ids) <= MaxSharedIds
    /\ web3Returns = "number"
    /\ ~strategy.threw
          => /\ req.headers.address = Str(Holder)
             /\ req.headers.signature = Signed(Holder, Message(Nonce))

\* The verify callbacks the two attempts are made with: one that calls
\* done at most once; and for the second attempt one that answers
\* done(null, user, info) before it returns, or throws.
PlainVerify ==
    /\ verifyHow \notin {"doneThenThrow", "doneTwice"}
    /\ turn = 2 => /\ verifyHow \in {"notCalled", "done", "throw"}
                   /\ \A i \in 1..Len(doneCalls) : doneCalls[i] = DefaultDone

ConcurrentNext == (Next /\ PlainVerify') \/ Arrive \/ Switch

ConcurrentSpec == ConcurrentInit /\ [][ConcurrentNext]_vars

\* every handler that can run does run (the event loop drains its queues)
FairSpec == Spec /\ WF_vars(Next)

\* ================================================================= claims
\* No handler of the attempt is left to run.
Quiescent ==
    \/ pc \in {"ended", "no_callback", "abandoned"}
    \/ /\ pc = "balance_pending"
       /\ \A i \in 1..Len(queries) : queries[i].state # "pending"
       /\ \E i \in 1..Len(queries) : queries[i].state = "rejected"

Claimed == req.headers.address

\* the recovery ran on key + challenge and gave the claimed address
\* (letter case aside)
SignatureMatches ==
    /\ resolved.t = "string"
    /\ ChallengeCheck([err |-> FALSE, res |-> resolved], req.headers) = ""

\* the recovery ran and gave another address than the claimed one
SignatureMismatches ==
    /\ resolved.t = "string"
    /\ ChallengeCheck([err |-> FALSE, res |-> resolved], req.headers)
          = "Address mismatch"

AllAnswered ==
    /\ queries # <<>>
    /\ \A i \in 1..Len(queries) : queries[i].state = "fulfilled"

RECURSIVE SumUpTo(_)
\* the arithmetic sum of the first k balances the ledger returned
SumUpTo(k) == IF k = 0 THEN 0 ELSE SumUpTo(k - 1) + Number(queries[k].value)

Aggregate == SumUpTo(Len(queries))

SomeQueryFailed == \E i \in 1..Len(queries) : queries[i].state = "rejected"

ZeroBalanceFail == Fail(Arg("message", "has no balance"))

HasFail == \E i \in 1..Len(signals) : signals[i].kind = "fail"

\* the verify callback, if it was invoked at all, called done exactly once
\* and never threw
WellBehaved == verifyHow \in {"notCalled", "done", "doneLater"}

\* C1: an attempt whose signature recovers to the claimed address, whose
\* aggregate balance is positive and whose callback answers done(null, user)
\* ends with exactly one signal, success, and the callback was handed the
\* claimed address and the aggregate balance.
C1_ValidAttemptSucceedsOnce ==
    (/\ Quiescent
     /\ SignatureMatches /\ AllAnswered /\ Aggregate > 0
     /\ WellBehaved
     /\ \A i \in 1..Len(doneCalls) :
           doneCalls[i].err = "null" /\ doneCalls[i].user = "user")
    => /\ Len(signals) = 1
       /\ signals[1].kind = "success"
       /\ Len(verifyCalls) = 1
       /\ verifyCalls[1].userInfo.address = Claimed
       /\ Number(verifyCalls[1].userInfo.nftBalance) = Aggregate

\* C2: the verify callback runs only after the signature matched and the
\* balance was positive; every other attempt never runs it and calls fail.
C2_VerifyOnlyForHolders ==
    /\ verifyCalls # <<>> => SignatureMatches /\ AllAnswered /\ Aggregate > 0
    /\ (Quiescent /\ ~(SignatureMatches /\ AllAnswered /\ Aggregate > 0))
          => verifyCalls = <<>> /\ HasFail

\* C3: an attempt whose recovered address differs from the claimed one ends
\* with fail and issues no ledger query; a ledger query is issued only after
\* the challenge was retrieved and the signature matched.
C3_MismatchRejectedBeforeLedger ==
    /\ issued # <<>> => SignatureMatches
    /\ SignatureMismatches => issued = <<>>
    /\ (SignatureMismatches /\ Quiescent)
          => Len(signals) = 1 /\ signals[1].kind = "fail"

MissingField ==
    \/ Claimed.t = "undefined" \/ Claimed.s = <<>>
    \/ req.headers.signature.t = "undefined"

\* C4: a request without address or without signature is rejected with fail
\* at the start: no ledger query, and the challenge source is not invoked.
C4_MissingFieldRejectedAtStart ==
    MissingField =>
        /\ issued = <<>>
        /\ challengeCalls = <<>>
        /\ pc \notin {"start", "unconstructed"}
              => Len(signals) = 1 /\ signals[1].kind = "fail"

\* C5: under ERC-1155 the aggregate is the arithmetic sum of the per-id
\* balances; the balance stage passes iff the sum is positive, and an
\* all-zero result ends in the zero-balance fail.
C5_AggregateIsExactSum ==
    (strategy._tokenStandard = 1155 /\ AllAnswered
        /\ balance.state \in {"resolved", "rejected"})
    => /\ Number(balance.value) = Aggregate
       /\ (balance.state = "resolved") = (Aggregate > 0)
       /\ (Aggregate = 0 /\ Quiescent) => signals = <<ZeroBalanceFail>>

\* C6: when a balance query errors the attempt ends with one terminal
\* signal that is neither success nor the zero-balance fail.
C6_LedgerErrorIsTerminalFault ==
    /\ SomeQueryFailed =>
          \A i \in 1..Len(signals) : signals[i].kind # "success"
    /\ (SomeQueryFailed /\ Quiescent)
          => Len(signals) = 1 /\ signals[1] # ZeroBalanceFail

\* C7: an attempt invokes at most one of success / fail / error, whatever
\* the collaborators do.
C7_AtMostOneSignal == Len(signals) <= 1

\* C8: every attempt whose verify callback calls done (if invoked) ends
\* with a terminal signal.
C8_EveryAttemptSignals ==
    (Quiescent /\ verifyHow # "never") => Len(signals) >= 1

\* C9: no exception or promise rejection raised inside an attempt is left
\* unhandled.
C9_NothingEscapes == escaped = <<>>

\* what done(err, user, info) has to be turned into
Expected(d) ==
    IF d.err # "null" THEN Error(Arg(d.err, ""))
    ELSE IF d.user = "null" THEN Fail(Arg(d.info, ""))
    ELSE Success(Arg(d.user, ""), Arg(d.info, ""))

\* C10: done(error) is reported with error, done(null, falsy, info) with
\* fail(info), anything else with success(identity, info).
C10_DoneMapsToSignal ==
    (WellBehaved /\ doneCalls # <<>>)
    => signals = <<Expected(doneCalls[1])>>

\* C11: an exception the identity callback throws is reported with error,
\* as done(error) is, and not with fail.
C11_VerifyThrowIsFault ==
    verifyHow = "throw" => signals = <<Error(Arg("error", "VerifyThrew"))>>

\* C12: with tokenStandard 1155 and tokenIds absent or an empty list the
\* constructor throws, so no instance with an empty list of ids under 1155
\* serves a request.
C12_Empty1155NeverConstructed ==
    (args.options.tokenStandard = 1155 /\ args.options.tokenIds.ids = <<>>)
    => (strategy.threw /\ pc = "unconstructed")

\* C13: the constructor throws when web3 is missing or has no provider, when
\* no verify callback is given (null, or the argument left out), when
\* tokenStandard is not 721 or 1155, when nftAddress is not a well-formed
\* address, and when customTokenABI is given but is not an array.
C13_ConstructionFailsFast ==
    (\/ args.web3 # "ready"
     \/ args.verify # "function"
     \/ args.options.tokenStandard \notin {721, 1155}
     \/ args.options.nftAddress # "valid"
     \/ args.options.customTokenABI = "object")
    => (strategy.threw /\ pc = "unconstructed")

\* the configured getChallenge failed: it threw, or gave its callback an
\* error or the empty string
SourceFailed ==
    \/ source.did = "threw"
    \/ source.did = "calledBack" /\ (source.err \/ source.res = Str(<<>>))

\* C14: when the configured getChallenge gives an error or an empty string
\* the attempt is rejected with fail; the static fallback is not used in its
\* place, and nothing of the later stages runs.
C14_SourceFailureRejects ==
    (args.options.getChallenge # "absent" /\ SourceFailed)
    => /\ signals # <<>> /\ signals[1].kind = "fail"
       /\ resolved \in {Undefined, Str(<<>>)}
       /\ balance.state = "none" /\ issued = <<>> /\ verifyCalls = <<>>

\* C15: options.challenge is the fallback for a getChallenge that failed:
\* when the supplied getChallenge gives an error, a signature of the claimed
\* address over key + options.challenge passes the signature stage.
C15_FallbackOnSourceError ==
    (/\ strategy.file = "part_002"
     /\ args.options.getChallenge # "absent"
     /\ args.options.challenge = "given"
     /\ source.did = "calledBack" /\ source.err
     /\ Claimed = Str(Holder)
     /\ req.headers.signature = Signed(Holder, Message(GivenText)))
    => (resolved = Str(GivenText) /\ balance.state # "none")

\* the text an instance without getChallenge verifies against
ConfiguredFallback ==
    Str(IF args.options.challenge = "given" THEN GivenText ELSE StaticText)

\* C16: without getChallenge the constructor succeeds, and every attempt,
\* whatever the claimed address, is verified against the same text:
\* options.challenge when it is a string, the built-in default otherwise.
C16_NoSourceUsesFallback ==
    (/\ args.options.getChallenge = "absent"
     /\ Unusual(args.options, args.web3, args.verify)
            \subseteq {"challenge", "passReqToCallback"}
     /\ args.options.tokenStandard = 1155 => args.options.tokenIds.given)
    => /\ ~strategy.threw /\ pc # "unconstructed"
       /\ pc \notin {"start", "challenge_pending"}
              => (source.did = "calledBack" /\ resolved = ConfiguredFallback)

\* C17: a getChallenge that returns the challenge string as its value is
\* used like an asynchronous one: the attempt verifies the signature
\* against the returned string and, when it matches, goes on to the ledger.
C17_SyncSourceProceeds ==
    (/\ args.options.getChallenge = "syncReturn"
     /\ source.did = "returned"
     /\ Quiescent)
    => /\ resolved = source.res
       /\ (/\ Claimed \in {Str(Holder), Str(ToLowerCase(Holder))}
           /\ req.headers.signature = Signed(Holder, Message(source.res.s)))
          => balance.state # "none"

\* two addresses that are the same but for the case of their letters
SameIgnoringCase(a, b) ==
    /\ Len(a) = Len(b)
    /\ \A i \in 1..Len(a) : LowerOf[a[i]] = LowerOf[b[i]]

\* the callback got a challenge string and the recovery gave an address
Recovered ==
    /\ source.did = "calledBack" /\ ~source.err
    /\ source.res.t = "string" /\ source.res.s # <<>>
    /\ req.headers.signature.t = "signature"

\* C18: the signature stage passes (the balance check is started) exactly
\* when the recovered address and the claimed one are the same but for the
\* case of their letters.
C18_SignatureStageIgnoresCase ==
    Recovered
    => ((balance.state # "none")
        <=> /\ Claimed.t = "string"
            /\ SameIgnoringCase(
                   Recover(Message(source.res.s), req.headers.signature).address,
                   Claimed.s))

\* the claimed address is the signer's in other letter case, and the stage
\* passed
C18_Witness ==
    /\ Recovered
    /\ Claimed.t = "string"
    /\ Claimed.s # req.headers.signature.signer
    /\ Claimed.s = ToLowerCase(req.headers.signature.signer)
    /\ balance.state # "none"

\* C19: a second attempt with the same headers, the same ledger and the same
\* responses of the challenge source and the verify callback ends with the
\* signals of the first one, payloads included; the first attempt leaves
\* nothing on the instance that changes the second.
C19_RepeatGivesSameSignals ==
    (firstRun.ran /\ Quiescent)
    => /\ signals = firstRun.signals
       /\ verifyCalls = firstRun.verifyCalls
       /\ escaped = firstRun.escaped

\* a second attempt under 1155 that ended with success as the first did
C19_Witness ==
    /\ firstRun.ran /\ Quiescent
    /\ strategy._tokenStandard = 1155
    /\ Len(issued) = MaxTokenIds
    /\ signals # <<>> /\ signals[1].kind = "success"
    /\ firstRun.signals = signals

\* C20: the identity callback is called as (req, userInfo, done) when
\* passReqToCallback is configured true (or left to its default) and as
\* (userInfo, done) when it is configured false.
C20_PassReqAsConfigured ==
    \A i \in 1..Len(verifyCalls) :
        verifyCalls[i].withReq = (args.options.passReqToCallback # "false")

\* C21: with autoGrantUser enabled and the balance stage passed, req.user is
\* { address, aggregate balance } when the verify callback is called; with
\* autoGrantUser disabled req.user is never written.
C21_AutoGrantBeforeVerify ==
    /\ args.options.autoGrantUser = "true"
          => \A i \in 1..Len(verifyCalls) :
                /\ verifyCalls[i].reqUser.set
                /\ verifyCalls[i].reqUser.address = Claimed
                /\ Number(verifyCalls[i].reqUser.nftBalance) = Aggregate
    /\ args.options.autoGrantUser # "true" => req.user = NoUser

\* C22: under ERC-1155 one query is sent for each configured token id, and
\* the promise of the balance check is settled (resolved with the aggregate
\* or rejected for a zero balance) only when every one of the queries has
\* returned, in whatever order they return.
C22_JoinBeforeAggregate ==
    strategy._tokenStandard = 1155
    => /\ issued \in {<<>>, strategy._tokenIds}
       /\ balance.state # "none"
             => issued = strategy._tokenIds
                /\ Len(queries) = Len(strategy._tokenIds)
       /\ balance.state \in {"resolved", "rejected"}
             => \A i \in 1..Len(queries) : queries[i].state = "fulfilled"

\* the aggregate over the longest list of ids was produced
C22_Witness ==
    /\ strategy._tokenStandard = 1155
    /\ Len(strategy._tokenIds) = MaxTokenIds
    /\ issued = strategy._tokenIds
    /\ AllAnswered
    /\ balance.state = "resolved"
    /\ Number(balance.value) = Aggregate

\* C24: the instance is at every moment what the constructor made of its
\* arguments (authenticate writes none of its fields, the asynchronous flag
\* included), in a first attempt and in one that follows it; and an attempt
\* calls the challenge source once, with the claimed address.
C24_ConfigurationIsFixed ==
    /\ strategy = NFTStrategy(strategy.file, args.options, args.web3,
                              args.verify)
    /\ pc \in {"unconstructed", "start"} => challengeCalls = <<>>
    /\ pc \notin {"unconstructed", "start"} => challengeCalls = <<Claimed>>

\* a second attempt on an instance with a synchronous source has ended
C24_Witness ==
    /\ firstRun.ran /\ Quiescent
    /\ ~strategy._asyncGetChallenge
    /\ challengeCalls = <<Claimed>>
    /\ signals # <<>>

\* C25: no query is sent twice in an attempt (the one query of ERC-721, the
\* query of each id of ERC-1155), and once a query has failed no further
\* query is sent.
C25_NoRetry ==
    [][/\ Len(issued') <= Len(QueryIds(strategy))
       /\ \A i, j \in 1..Len(issued') : i # j => issued'[i] # issued'[j]
       /\ SomeQueryFailed => issued' = issued]_vars

\* under ERC-1155 a query failed, and each id was asked for once
C25_Witness ==
    /\ strategy._tokenStandard = 1155
    /\ Len(strategy._tokenIds) = MaxTokenIds
    /\ SomeQueryFailed /\ Quiescent
    /\ issued = strategy._tokenIds

\* C26: the address in userInfo, and in req.user when autoGrantUser is on,
\* is the address of the request header as it was received, letter case
\* included, and not the address recovered from the signature; the balance
\* next to it is the value the promise of the balance check resolved with.
C26_UserInfoIsClaimedAddress ==
    /\ \A i \in 1..Len(verifyCalls) :
          /\ balance.state = "resolved"
          /\ verifyCalls[i].userInfo.address = Claimed
          /\ verifyCalls[i].userInfo.nftBalance = balance.value
    /\ req.user.set
          => /\ balance.state = "resolved"
             /\ req.user.address = Claimed
             /\ req.user.nftBalance = balance.value

\* the callback was called, and req.user set, for a claimed address written
\* in another letter case than the recovered one
C26_Witness ==
    /\ verifyCalls # <<>>
    /\ req.user.set
    /\ Claimed.s # req.headers.signature.signer
    /\ verifyCalls[1].userInfo.address.s
          = ToLowerCase(req.headers.signature.signer)

\* C27: on an instance of ERC-1155 whose list of token ids is empty, an
\* attempt with a matching signature sends no query to the ledger, never
\* calls the verify callback and ends with the zero-balance fail.
C27_EmptyIdListFails ==
    (/\ strategy._tokenStandard = 1155
     /\ strategy._tokenIds = <<>>
     /\ SignatureMatches)
    => /\ issued = <<>> /\ queries = <<>>
       /\ verifyCalls = <<>>
       /\ balance.state \in {"pending", "rejected"}
       /\ Quiescent => signals = <<ZeroBalanceFail>>

\* such an attempt has ended
C27_Witness ==
    /\ strategy._tokenStandard = 1155
    /\ strategy._tokenIds = <<>>
    /\ SignatureMatches
    /\ Quiescent
    /\ signals = <<ZeroBalanceFail>>

\* every query was answered and the balances the ledger returned add up to
\* zero
ZeroBalance ==
    /\ balance.state \in {"resolved", "rejected"}
    /\ \A i \in 1..Len(queries) : queries[i].state = "fulfilled"
    /\ Aggregate = 0

\* C28: an attempt stopped by a missing field, a failure of the challenge
\* source, a signature mismatch, a zero balance or a failed ledger query
\* never sets req.user, with autoGrantUser on or off.
C28_EarlyEndLeavesRequest ==
    (\/ MissingField
     \/ SourceFailed
     \/ SignatureMismatches
     \/ ZeroBalance
     \/ SomeQueryFailed)
    => req.user = NoUser

\* C23: an attempt made while another attempt is in flight on the same
\* instance ends, under every interleaving of the handlers of the two, with
\* the signals, the userInfo and the req.user it ends with when it is made
\* alone; and the userInfo and req.user of each attempt carry the address
\* and the balance of that attempt.
C23_AttemptsAreIndependent ==
    other.pc # "idle"
    => /\ (turn = 1 /\ Quiescent)
             => /\ signals = firstRun.signals
                /\ verifyCalls = firstRun.verifyCalls
                /\ req.user = firstRun.user
                /\ escaped = firstRun.escaped
       /\ \A a \in {ThisAttempt, other} :
             /\ \A i \in 1..Len(a.verifyCalls) :
                   a.verifyCalls[i].userInfo
                      = UserInfo(a.req.headers, a.balance.value)
             /\ a.req.user.set
                   => a.req.user = UserInfo(a.req.headers, a.balance.value)

\* both attempts called the verify callback, each with its own address and
\* another balance, and the first attempt ended as it did alone
C23_Witness ==
    /\ other.pc # "idle" /\ turn = 1 /\ Quiescent
    /\ signals # <<>> /\ signals[1].kind = "success"
    /\ signals = firstRun.signals
    /\ other.verifyCalls # <<>>
    /\ other.signals # <<>>
    /\ other.req.headers.address # Claimed
    /\ other.balance.value # balance.value

\* Quiescent names exactly the states of an attempt in which no handler is
\* enabled.
QuiescentIsStuck == Quiescent <=> (pc # "unconstructed" /\ ~ENABLED Next)

====
